---- MODULE Spec2Model ----
(***************************************************************************)
(* State-machine model of scripts/sae_inference_service.py: the mock SAE   *)
(* inference engine (MockSAEInference) and the four Flask handlers around  *)
(* it.  A request arrives, its handler runs to completion in one step,    *)
(* and the response it leaves is kept until the serving loop sends it and  *)
(* awaits the next request.  calls records what the handler invoked.       *)
(*                                                                         *)
(* Numbers: activation strengths are in tenths (5 is 0.5), beta draws in   *)
(* hundredths (90 is 0.90).  A text is a sequence of one-character         *)
(* strings.  The random source of one request is a cyclic stream of raw    *)
(* draws; every call site of np.random maps the raw draw it consumes to a  *)
(* sample of its own distribution.  Of the feature_dimension columns of   *)
(* the activation matrix only the probe columns may be drawn at or above   *)
(* the threshold; every other entry is drawn below it.                     *)
(***************************************************************************)
EXTENDS Integers, Sequences, FiniteSets, TLC

VARIABLES request, draws, response, calls

vars == <<request, draws, response, calls>>

(***************************************************************************)
(* Bounds of the model.                                                    *)
(***************************************************************************)
\* length of the cyclic stream of raw draws one request consumes
StreamLen == 5
\* longest request text, in characters
MaxTextLen == 3
\* matrix cells per request that may be drawn at or above the threshold
MaxCells == 6

(***************************************************************************)
(* Constants of the program.                                               *)
(***************************************************************************)
feature_dimension == 16384
vocabulary_size == 50257
\* activations[activations < 0.5] = 0, in tenths
SparsityThreshold == 5
\* sorted_indices[:5]
TopK == 5
DefaultLayer == 12
DefaultLimit == 20
MaxLimit == 100
LatencyLow == 50
LatencyHigh == 200

descriptions ==
    << "Emotional expression (positive sentiment)",
       "Geographic locations and place names",
       "Mathematical operations and numbers",
       "Past tense verbs and temporal expressions",
       "Question formation and interrogative patterns",
       "Proper nouns and named entities",
       "Scientific terminology and concepts",
       "Social interaction and relationship terms",
       "Abstract reasoning and logic patterns",
       "Creative and artistic language" >>

token_sets ==
    << <<"happy", "joy", "excited", "wonderful", "amazing">>,
       <<"Paris", "London", "Tokyo", "mountain", "river">>,
       <<"plus", "minus", "equals", "calculate", "number">>,
       <<"walked", "went", "happened", "was", "did">>,
       <<"what", "how", "when", "where", "why">>,
       <<"John", "Mary", "Smith", "Company", "University">>,
       <<"molecule", "theory", "experiment", "research", "data">>,
       <<"friend", "family", "together", "relationship", "team">>,
       <<"because", "therefore", "if", "then", "logic">>,
       <<"create", "imagine", "beautiful", "art", "design">> >>

prompt_sets ==
    << <<"I'm feeling great today!", "What a wonderful surprise!">>,
       <<"The capital of France is", "Mountains are tall and">>,
       <<"2 + 2 equals", "Calculate the sum of">>,
       <<"Yesterday I walked to", "The event happened when">>,
       <<"What is the meaning of", "How do you solve">>,
       <<"Dr. Smith published", "Harvard University announced">>,
       <<"The molecule consists of", "Scientific research shows">>,
       <<"My friend and I", "Our team worked together">>,
       <<"This happens because", "If we assume that">>,
       <<"Let's create something", "The artist painted a">> >>

(***************************************************************************)
(* The random source.                                                      *)
(***************************************************************************)
\* samples of np.random.exponential(0.1, ...), in tenths: below, at and
\* above the sparsity threshold
ExponentialSamples == <<4, 5, 9>>
\* samples of np.random.beta(a, b), in hundredths
BetaSamples == <<10, 50, 90>>
\* samples of np.random.randint(0, feature_dimension)
FeatureIdSamples == <<3, 13, feature_dimension - 1>>
\* samples of np.random.randint(50, 200)
LatencySamples == <<LatencyLow, 120, LatencyHigh - 1>>

Raw == 1..Len(ExponentialSamples)

Streams == [1..StreamLen -> Raw]

NoDraws == <<>>

\* the k-th raw draw (k counted from 0) of a request
Draw(stream, k) == stream[(k % Len(stream)) + 1]

Exponential(stream, k) == ExponentialSamples[Draw(stream, k)]

Beta(stream, k) == BetaSamples[Draw(stream, k)]

RandintFeature(stream, k) == FeatureIdSamples[Draw(stream, k)]

RandintLatency(stream, k) == LatencySamples[Draw(stream, k)]

(***************************************************************************)
(* Helpers over sets and sequences.                                        *)
(***************************************************************************)
Min(a, b) == IF a < b THEN a ELSE b

\* the sequence f[1], ..., f[n] written out: each element is computed once
Listed(f) == f \o <<>>

\* the function f written out: each value is computed once
Tabled(f) == f @@ <<>>

\* the elements of a finite set of integers in increasing order
Ascending(S) ==
    Listed([r \in 1..Cardinality(S) |->
               CHOOSE x \in S : Cardinality({y \in S : y < x}) = r - 1])

\* seq[::-1]
Reversed(seq) == Listed([r \in 1..Len(seq) |-> seq[Len(seq) + 1 - r]])

\* seq[:k]
Prefix(seq, k) == SubSeq(seq, 1, Min(k, Len(seq)))

\* np.argsort(values): the positions of values in increasing order of value.
\* The order of equal values is not fixed by the default sort kind; tie
\* "stable" keeps them in position order, tie "reverse" in the opposite one.
ArgSort(values, tie) ==
    LET n == Len(values)
        rank == Listed([p \in 1..n |->
                    Cardinality({q \in 1..n :
                        \/ values[q] < values[p]
                        \/ /\ values[q] = values[p]
                           /\ IF tie = "stable" THEN q < p ELSE q > p})])
    IN  Listed([r \in 1..n |-> CHOOSE p \in 1..n : rank[p] = r - 1])

TieOrders == {"stable", "reverse"}

(***************************************************************************)
(* MockSAEInference                                                        *)
(***************************************************************************)
\* _get_feature_description
GetFeatureDescription(feature_id) ==
    descriptions[(feature_id % Len(descriptions)) + 1]

\* GetTopTokens indexed by the tens digit instead of the residue
GetTopTokensByTens(feature_id) ==
    token_sets[((feature_id \div 10) % Len(token_sets)) + 1]

\* _get_top_tokens
GetTopTokens(feature_id) ==
    token_sets[(feature_id % Len(token_sets)) + 1]

\* _get_example_prompts
GetExamplePrompts(feature_id) ==
    prompt_sets[(feature_id % Len(prompt_sets)) + 1]

\* get_feature_info; k is the number of raw draws consumed before the call
GetFeatureInfo(feature_id, stream, k) ==
    [ feature_id |-> feature_id,
      description |-> GetFeatureDescription(feature_id),
      activation_frequency |-> Beta(stream, k),
      top_tokens |-> GetTopTokens(feature_id),
      example_prompts |-> GetExamplePrompts(feature_id),
      research_notes |-> <<"Feature", feature_id,
                           "identified in SAE decomposition research">>,
      interpretability_score |-> Beta(stream, k + 1) ]

Whitespace == {" "}

\* text.split(): the maximal runs of non-whitespace characters, in order
RECURSIVE SplitFrom(_, _, _, _)
SplitFrom(text, i, cur, out) ==
    LET closed == IF cur = <<>> THEN out ELSE Append(out, cur)
    IN  IF i > Len(text) THEN closed
        ELSE IF text[i] \in Whitespace
             THEN SplitFrom(text, i + 1, <<>>, closed)
             ELSE SplitFrom(text, i + 1, Append(cur, text[i]), out)

Split(text) == SplitFrom(text, 1, <<>>, <<>>)

\* The columns of the matrix whose draw may reach the threshold, for a text
\* of num_tokens tokens; the draw of every other column is below it.
ProbeColumns(num_tokens) ==
    IF num_tokens = 0 THEN {}
    ELSE { ((c - 1) * 2731 + feature_dimension - 1) % feature_dimension :
             c \in 1..(MaxCells \div num_tokens) }

\* np.random.exponential(0.1, (num_tokens, feature_dimension)), on the
\* probe columns; rows are filled in order, each from left to right
DrawActivations(num_tokens, stream) ==
    LET cols == Ascending(ProbeColumns(num_tokens))
    IN  Listed([i \in 1..num_tokens |->
            Tabled([f \in ProbeColumns(num_tokens) |->
                LET p == CHOOSE q \in 1..Len(cols) : cols[q] = f
                IN  Exponential(stream, (i - 1) * Len(cols) + p - 1)])])

\* ApplyThreshold with activations <= 0.5 in place of activations < 0.5
ApplyThresholdInclusive(activations) ==
    Listed([i \in DOMAIN activations |->
        Tabled([f \in DOMAIN activations[i] |->
            IF activations[i][f] <= SparsityThreshold THEN 0
            ELSE activations[i][f]])])

\* activations[activations < 0.5] = 0
ApplyThreshold(activations) ==
    Listed([i \in DOMAIN activations |->
        Tabled([f \in DOMAIN activations[i] |->
            IF activations[i][f] < SparsityThreshold THEN 0
            ELSE activations[i][f]])])

\* np.where(token_activations > 0)[0]
ActiveIndices(token_activations) ==
    Ascending({f \in DOMAIN token_activations : token_activations[f] > 0})

\* SortedIndices without the reversal [::-1]
SortedIndicesAscending(token_activations, tie) ==
    LET active_indices == ActiveIndices(token_activations)
        values == Listed([p \in 1..Len(active_indices) |->
                             token_activations[active_indices[p]]])
        order == ArgSort(values, tie)
    IN  Listed([r \in 1..Len(active_indices) |-> active_indices[order[r]]])

\* active_indices[np.argsort(token_activations[active_indices])[::-1]]
SortedIndices(token_activations, tie) ==
    LET active_indices == ActiveIndices(token_activations)
        values == Listed([p \in 1..Len(active_indices) |->
                             token_activations[active_indices[p]]])
        order == Reversed(ArgSort(values, tie))
    IN  Listed([r \in 1..Len(active_indices) |-> active_indices[order[r]]])

\* sorted_indices[:5]
Top5(sorted_indices) == Prefix(sorted_indices, TopK)

\* the token_features list of one token; k raw draws were consumed before
TokenFeatures(token_activations, stream, k, tie) ==
    LET top_5 == Top5(SortedIndices(token_activations, tie))
    IN  Listed([r \in 1..Len(top_5) |->
            [ feature_id |-> top_5[r],
              activation |-> token_activations[top_5[r]],
              description |-> GetFeatureDescription(top_5[r]),
              confidence |-> Beta(stream, k + r - 1) ]])

\* the loop over enumerate(tokens): tokens[i..] are still to be visited
RECURSIVE TopFeatures(_, _, _, _, _, _, _)
TopFeatures(tokens, activations, i, stream, k, tie, out) ==
    IF i > Len(tokens) THEN [top_features |-> out, drawn |-> k]
    ELSE IF Len(ActiveIndices(activations[i])) > 0
         THEN LET token_features == TokenFeatures(activations[i], stream, k, tie)
              IN  TopFeatures(tokens, activations, i + 1, stream,
                              k + Len(token_features), tie,
                              Append(out, [ token |-> tokens[i],
                                            position |-> i - 1,
                                            features |-> token_features ]))
         ELSE TopFeatures(tokens, activations, i + 1, stream, k, tie, out)

\* int(np.sum(activations > 0))
RECURSIVE CountActive(_, _)
CountActive(activations, i) ==
    IF i > Len(activations) THEN 0
    ELSE Cardinality({f \in DOMAIN activations[i] : activations[i][f] > 0})
         + CountActive(activations, i + 1)

\* TotalFeatures counting, per token, only the entries the top 5 keep
RECURSIVE CountKept(_, _)
CountKept(activations, i) ==
    IF i > Len(activations) THEN 0
    ELSE Min(TopK, Cardinality({f \in DOMAIN activations[i] :
                                   activations[i][f] > 0}))
         + CountKept(activations, i + 1)

TotalFeaturesKept(activations) == CountKept(activations, 1)

TotalFeatures(activations) == CountActive(activations, 1)

\* float(np.mean(activations > 0)): the count of active entries over the
\* size of the matrix; over an empty matrix numpy divides 0 by 0 and the
\* result is nan, here the fraction with den = 0
Sparsity(activations, num_tokens) ==
    [ num |-> TotalFeatures(activations),
      den |-> num_tokens * feature_dimension ]

IsNaN(x) == x.den = 0

\* encode_text
EncodeText(text, layer, stream, tie) ==
    LET tokens == Split(text)
        num_tokens == Len(tokens)
        activations == ApplyThreshold(DrawActivations(num_tokens, stream))
        loop == TopFeatures(tokens, activations, 1, stream,
                            num_tokens * Cardinality(ProbeColumns(num_tokens)),
                            tie, <<>>)
    IN  [ text |-> text,
          layer |-> layer,
          model |-> "claude-3-sonnet-sae",
          total_features |-> TotalFeatures(activations),
          sparsity |-> Sparsity(activations, num_tokens),
          token_features |-> loop.top_features,
          metadata |-> [ feature_dimension |-> feature_dimension,
                         inference_time_ms |-> RandintLatency(stream, loop.drawn),
                         sae_version |-> "v2.1",
                         research_source |-> "Anthropic SAE Research 2024" ] ]

(***************************************************************************)
(* Requests                                                                *)
(***************************************************************************)
Alphabet == {" ", "a"}

Texts == UNION {[1..n -> Alphabet] : n \in 0..MaxTextLen}

Layers == {5}

\* The JSON body of POST /sae/encode as request.get_json() returns it: the
\* JSON value null, or an object whose keys text and layer may be absent.
EncodeBodies ==
    {[json |-> "null", has_text |-> FALSE, text |-> <<>>,
      has_layer |-> FALSE, layer |-> 0]}
    \cup {[json |-> "object", has_text |-> FALSE, text |-> <<>>,
           has_layer |-> hl, layer |-> IF hl THEN l ELSE 0] :
             hl \in BOOLEAN, l \in Layers}
    \cup {[json |-> "object", has_text |-> TRUE, text |-> t,
           has_layer |-> hl, layer |-> IF hl THEN l ELSE 0] :
             t \in Texts, hl \in BOOLEAN, l \in Layers}

\* feature ids around both ends of [0, feature_dimension)
LookupIds ==
    (-2..22) \cup ((feature_dimension - 2)..(feature_dimension + 2))

Queries == {"", "happy"}

\* values of the limit query parameter, as character sequences
LimitArgs ==
    { <<>>, <<"0">>, <<"1">>, <<"2">>, <<"5">>, <<"-", "1">>,
      <<"1", "0", "0">>, <<"1", "0", "1">>,
      <<"x">>, <<"1", ".", "5">>, <<"-">> }

\* request.args of GET /sae/search: query and limit may be absent
SearchArgs ==
    {[has_query |-> hq, query |-> IF hq THEN q ELSE "",
      has_limit |-> hl, limit |-> IF hl THEN l ELSE <<>>] :
        hq \in BOOLEAN, q \in Queries, hl \in BOOLEAN, l \in LimitArgs}

NoRequest == [op |-> "none"]

NoResponse == [status |-> 0]

NoCalls == [simulator |-> 0, resolver |-> 0, sampled |-> 0, limit |-> <<>>]

(***************************************************************************)
(* int(str)                                                                *)
(***************************************************************************)
Digits == <<"0", "1", "2", "3", "4", "5", "6", "7", "8", "9">>

IsDigit(c) == \E d \in 1..Len(Digits) : Digits[d] = c

DigitValue(c) == (CHOOSE d \in 1..Len(Digits) : Digits[d] = c) - 1

RECURSIVE DecimalValue(_, _)
DecimalValue(chars, acc) ==
    IF chars = <<>> THEN acc
    ELSE DecimalValue(Tail(chars), 10 * acc + DigitValue(Head(chars)))

\* int(chars): an optional sign and then one or more decimal digits give
\* the integer; the empty string, a lone sign, a letter or a decimal point
\* raise ValueError (ok = FALSE)
ParseInt(chars) ==
    LET signed == chars # <<>> /\ Head(chars) \in {"-", "+"}
        digits == IF signed THEN Tail(chars) ELSE chars
        ok == digits # <<>> /\ \A i \in 1..Len(digits) : IsDigit(digits[i])
    IN  [ ok |-> ok,
          value |-> IF ~ok THEN 0
                    ELSE IF signed /\ Head(chars) = "-"
                         THEN 0 - DecimalValue(digits, 0)
                         ELSE DecimalValue(digits, 0) ]

(***************************************************************************)
(* Handlers.  Each gives the response, the calls it made and the stream    *)
(* it drew from (NoDraws when it drew nothing).                            *)
(***************************************************************************)
Respond(status, body, made, stream) ==
    [ response |-> [status |-> status, body |-> body],
      calls |-> made,
      draws |-> stream ]

\* health_check
HealthCheckHandler ==
    Respond(200, [status |-> "healthy", service |-> "sae-inference"],
            NoCalls, NoDraws)

\* TextMissing that also rejects a text without tokens
TextBlank(text) == Split(text) = <<>>

\* if not text
TextMissing(text) == text = <<>>

\* sae_encode
SaeEncodeHandler(body, stream, tie) ==
    IF body.json # "object"
    THEN \* data.get on None raises; except Exception
         Respond(500, [error |-> "AttributeError"], NoCalls, NoDraws)
    ELSE LET text == IF body.has_text THEN body.text ELSE <<>>
             layer == IF body.has_layer THEN body.layer ELSE DefaultLayer
         IN  IF TextMissing(text)
             THEN Respond(400, [error |-> "Text is required"], NoCalls, NoDraws)
             ELSE Respond(200, EncodeText(text, layer, stream, tie),
                          [NoCalls EXCEPT !.simulator = 1], stream)

\* InvalidFeatureId with > in place of >=
InvalidFeatureIdOffByOne(feature_id) ==
    feature_id < 0 \/ feature_id > feature_dimension

\* feature_id < 0 or feature_id >= sae_engine.feature_dimension
InvalidFeatureId(feature_id) ==
    feature_id < 0 \/ feature_id >= feature_dimension

\* get_feature
GetFeatureHandler(feature_id, stream) ==
    IF InvalidFeatureId(feature_id)
    THEN Respond(400, [error |-> "Invalid feature ID"], NoCalls, NoDraws)
    ELSE Respond(200, GetFeatureInfo(feature_id, stream, 0),
                 [NoCalls EXCEPT !.resolver = 1], stream)

\* ClampLimit without the cap
ClampLimitUncapped(value) == value

\* min(int(...), 100)
ClampLimit(value) == Min(value, MaxLimit)

\* the body of for i in range(limit), for its i-th pass (i from 0): four
\* raw draws, in the order randint, beta(2,8), beta(6,3), beta(3,7)
SearchResult(i, stream) ==
    LET feature_id == RandintFeature(stream, 4 * i)
        feature_info == GetFeatureInfo(feature_id, stream, 4 * i + 1)
    IN  [ feature_id |-> feature_info.feature_id,
          description |-> feature_info.description,
          activation_frequency |-> feature_info.activation_frequency,
          top_tokens |-> feature_info.top_tokens,
          example_prompts |-> feature_info.example_prompts,
          research_notes |-> feature_info.research_notes,
          interpretability_score |-> feature_info.interpretability_score,
          relevance_score |-> Beta(stream, 4 * i + 3) ]

\* for i in range(limit): ... results.append(feature_info)
CollectResults(limit, stream) ==
    Listed([r \in 1..limit |-> SearchResult(r - 1, stream)])

\* SortByRelevance leaving the records in insertion order
SortByRelevanceOmitted(results) == Listed(results)

\* results.sort(key=lambda x: x['relevance_score'], reverse=True): a stable
\* sort, records of equal score keep their order of insertion
SortByRelevance(results) ==
    LET n == Len(results)
        score == Listed([p \in 1..n |-> results[p].relevance_score])
        rank == Listed([p \in 1..n |->
                    Cardinality({q \in 1..n :
                        \/ score[q] > score[p]
                        \/ score[q] = score[p] /\ q < p})])
    IN  Listed([r \in 1..n |-> results[CHOOSE p \in 1..n : rank[p] = r - 1]])

\* if not query
QueryMissing(query) == query = ""

\* search_features
SearchFeaturesHandler(args, stream) ==
    LET query == IF args.has_query THEN args.query ELSE ""
        parsed == IF args.has_limit THEN ParseInt(args.limit)
                  ELSE [ok |-> TRUE, value |-> DefaultLimit]
    IN  IF ~parsed.ok
        THEN \* int() raises ValueError; except Exception
             Respond(500, [error |-> "ValueError"], NoCalls, NoDraws)
        ELSE LET limit == ClampLimit(parsed.value)
                 made == [NoCalls EXCEPT !.limit = <<limit>>]
             IN  IF QueryMissing(query)
                 THEN Respond(400, [error |-> "Query is required"], made, NoDraws)
                 ELSE LET results == SortByRelevance(CollectResults(limit, stream))
                      IN  Respond(200,
                                  [ query |-> query,
                                    total_results |-> Len(results),
                                    features |-> results ],
                                  [made EXCEPT !.resolver = Len(results),
                                               !.sampled = Len(results)],
                                  IF Len(results) > 0 THEN stream ELSE NoDraws)

(***************************************************************************)
(* The state machine                                                       *)
(***************************************************************************)
Init ==
    /\ request = NoRequest
    /\ draws = NoDraws
    /\ response = NoResponse
    /\ calls = NoCalls

Requests ==
    {[op |-> "health"]}
    \cup {[op |-> "encode", body |-> body] : body \in EncodeBodies}
    \cup {[op |-> "feature", feature_id |-> feature_id] : feature_id \in LookupIds}
    \cup {[op |-> "search", args |-> args] : args \in SearchArgs}

\* a request arrives and is routed to its handler
Receive ==
    /\ request = NoRequest
    /\ request' \in Requests
    /\ UNCHANGED <<draws, response, calls>>

\* GET /health
HealthCheck ==
    /\ request.op = "health"
    /\ response = NoResponse
    /\ LET out == HealthCheckHandler
       IN  /\ response' = out.response
           /\ calls' = out.calls
           /\ draws' = out.draws
    /\ UNCHANGED request

\* POST /sae/encode
SaeEncode ==
    /\ request.op = "encode"
    /\ response = NoResponse
    /\ \E stream \in Streams, tie \in TieOrders :
          LET out == SaeEncodeHandler(request.body, stream, tie)
          IN  /\ response' = out.response
              /\ calls' = out.calls
              /\ draws' = out.draws
    /\ UNCHANGED request

\* GET /sae/feature/<int:feature_id>
GetFeature ==
    /\ request.op = "feature"
    /\ response = NoResponse
    /\ \E stream \in Streams :
          LET out == GetFeatureHandler(request.feature_id, stream)
          IN  /\ response' = out.response
              /\ calls' = out.calls
              /\ draws' = out.draws
    /\ UNCHANGED request

\* GET /sae/search
SearchFeatures ==
    /\ request.op = "search"
    /\ response = NoResponse
    /\ \E stream \in Streams :
          LET out == SearchFeaturesHandler(request.args, stream)
          IN  /\ response' = out.response
              /\ calls' = out.calls
              /\ draws' = out.draws
    /\ UNCHANGED request

\* app.run: the response is sent and the next request is awaited
Serve ==
    /\ response # NoResponse
    /\ request' = NoRequest
    /\ draws' = NoDraws
    /\ response' = NoResponse
    /\ calls' = NoCalls

Next ==
    \/ Receive
    \/ HealthCheck
    \/ SaeEncode
    \/ GetFeature
    \/ SearchFeatures
    \/ Serve

Spec == Init /\ [][Next]_vars

(***************************************************************************)
(* Properties                                                              *)
(***************************************************************************)
Answered(op) == request.op = op /\ response # NoResponse

\* the query and the limit a search request supplies
SuppliedQuery == IF request.args.has_query THEN request.args.query ELSE ""

SuppliedLimit ==
    IF request.args.has_limit THEN ParseInt(request.args.limit)
    ELSE [ok |-> TRUE, value |-> DefaultLimit]

NonIncreasingRelevance(features) ==
    \A r \in 1..(Len(features) - 1) :
        features[r].relevance_score >= features[r + 1].relevance_score

\* C1: a search with a non-empty query and an integer limit in 0..100
\* succeeds with exactly limit records, total_results = limit, and the
\* records in non-increasing order of relevance_score.
C1_SearchReturnsLimitSorted ==
    ( /\ Answered("search")
      /\ SuppliedQuery # ""
      /\ SuppliedLimit.ok
      /\ SuppliedLimit.value \in 0..MaxLimit )
    => /\ response.status = 200
       /\ Len(response.body.features) = SuppliedLimit.value
       /\ response.body.total_results = SuppliedLimit.value
       /\ NonIncreasingRelevance(response.body.features)

\* a search for "happy" with limit 5 whose draws were not already in order
C1_Witness ==
    /\ Answered("search")
    /\ SuppliedQuery = "happy"
    /\ request.args.has_limit
    /\ request.args.limit = <<"5">>
    /\ response.status = 200
    /\ response.body.total_results = 5
    /\ ~NonIncreasingRelevance(CollectResults(5, draws))
    /\ response.body.features[1].relevance_score
         > response.body.features[5].relevance_score

MetadataRecords ==
    IF Answered("feature") /\ response.status = 200
    THEN {response.body}
    ELSE IF Answered("search") /\ response.status = 200
         THEN {response.body.features[r] : r \in 1..Len(response.body.features)}
         ELSE {}

SameExemplars(a, b) ==
    /\ a.description = b.description
    /\ a.top_tokens = b.top_tokens
    /\ a.example_prompts = b.example_prompts

\* valid feature ids of the residue class of feature_id
SameResidueIds(feature_id) ==
    {j \in LookupIds \cup {FeatureIdSamples[u] : u \in Raw} :
        /\ j \in 0..(feature_dimension - 1)
        /\ j % 10 = feature_id % 10}

\* C3: metadata records of feature ids with the same residue mod 10 carry
\* the same description, top_tokens and example_prompts, whatever was drawn
\* (two records of one response, and a record against a later resolver call
\* on any id of its residue class); the three fields of a record come from
\* the same row of the three tables.
C3_SameResidueSameExemplars ==
    LET records == MetadataRecords
    IN  /\ \A a, b \in records :
              a.feature_id % 10 = b.feature_id % 10 => SameExemplars(a, b)
        /\ \A a \in records :
              /\ \A j \in SameResidueIds(a.feature_id) :
                    SameExemplars(a, GetFeatureInfo(j, draws, 2))
              /\ \E row \in 1..Len(descriptions) :
                    /\ a.description = descriptions[row]
                    /\ a.top_tokens = token_sets[row]
                    /\ a.example_prompts = prompt_sets[row]

\* a search response holding the records of two different ids of one
\* residue class, with different random fields
C3_Witness ==
    /\ Answered("search")
    /\ response.status = 200
    /\ \E a, b \in MetadataRecords :
          /\ a.feature_id = 3
          /\ b.feature_id = 13
          /\ a.activation_frequency # b.activation_frequency
          /\ SameExemplars(a, b)

\* C4: a lookup of feature_id < 0 or feature_id >= feature_dimension gives
\* a validation error (status 400) without calling the resolver; a lookup
\* of 0 <= feature_id < feature_dimension gives the computed record, whose
\* feature_id is the requested one.
C4_LookupValidatesRange ==
    Answered("feature") =>
        IF request.feature_id < 0 \/ request.feature_id >= feature_dimension
        THEN /\ response.status = 400
             /\ response.body = [error |-> "Invalid feature ID"]
             /\ calls.resolver = 0
        ELSE /\ response.status = 200
             /\ calls.resolver = 1
             /\ response.body.feature_id = request.feature_id

\* the lookup of feature_dimension itself was rejected
C4_Witness ==
    /\ Answered("feature")
    /\ request.feature_id = feature_dimension
    /\ response.status = 400
    /\ calls.resolver = 0

Encoded == Answered("encode") /\ response.status = 200

EncodedTokens == Split(request.body.text)

\* the matrix as drawn, before the threshold is applied
DrawnMatrix == DrawActivations(Len(EncodedTokens), draws)

\* the active columns of each row of the drawn matrix, by token
ActiveColumns ==
    LET matrix == DrawnMatrix
    IN  Listed([i \in 1..Len(matrix) |->
                   {f \in DOMAIN matrix[i] : matrix[i][f] >= SparsityThreshold}])

\* C6: in an encode result every emitted feature list has 1 to 5 entries,
\* in non-increasing order of activation, with pairwise distinct feature
\* ids; it has min(5, active entries of the row) entries, each an active
\* entry of the row with its strength, and no active entry left out is
\* stronger than the weakest entry listed.
C6_TopFeaturesOfEachToken ==
    Encoded =>
        LET matrix == DrawnMatrix
            columns == ActiveColumns
        IN  \A e \in 1..Len(response.body.token_features) :
                LET entry == response.body.token_features[e]
                    list == entry.features
                    active == columns[entry.position + 1]
                    row == matrix[entry.position + 1]
                    listed == {list[r].feature_id : r \in 1..Len(list)}
                IN  /\ Len(list) \in 1..5
                    /\ \A r \in 1..(Len(list) - 1) :
                          list[r].activation >= list[r + 1].activation
                    /\ Cardinality(listed) = Len(list)
                    /\ Len(list) = Min(5, Cardinality(active))
                    /\ listed \subseteq active
                    /\ \A r \in 1..Len(list) :
                          list[r].activation = row[list[r].feature_id]
                    /\ \A f \in active \ listed :
                          \A r \in 1..Len(list) : row[f] <= list[r].activation

\* a token with more than 5 active entries, of different strengths
C6_Witness ==
    /\ Encoded
    /\ \E e \in 1..Len(response.body.token_features) :
          LET entry == response.body.token_features[e]
          IN  /\ Cardinality(ActiveColumns[entry.position + 1]) > 5
              /\ Len(entry.features) = 5
              /\ entry.features[1].activation > entry.features[5].activation

\* C7: the per-token sequence of an encode result has one entry for each
\* token whose row has an active entry and none for any other token, in
\* increasing order of position; position is the index from 0 in the
\* whitespace-split text and token is the token there; so there are never
\* more entries than tokens.
C7_EntriesAreTheActiveTokens ==
    Encoded =>
        LET out == response.body.token_features
            tokens == EncodedTokens
            n == Len(tokens)
            columns == ActiveColumns
        IN  /\ Len(out) <= n
            /\ {out[e].position : e \in 1..Len(out)}
                 = {i \in 0..(n - 1) : columns[i + 1] # {}}
            /\ \A e \in 1..(Len(out) - 1) : out[e].position < out[e + 1].position
            /\ \A e \in 1..Len(out) :
                  /\ out[e].position \in 0..(n - 1)
                  /\ out[e].token = tokens[out[e].position + 1]

\* two tokens, the first without an active entry and left out, the second
\* emitted at position 1
C7_Witness ==
    /\ Encoded
    /\ EncodedTokens = << <<"a">>, <<"a">> >>
    /\ ActiveColumns[1] = {}
    /\ Len(response.body.token_features) = 1
    /\ response.body.token_features[1].position = 1

\* C8: when splitting yields no token (a text of whitespace only, through
\* the encode operation) the result is a success with an empty per-token
\* sequence, total_features = 0 and sparsity = 0.
C8_NoTokensZeroAggregates ==
    ( /\ Answered("encode")
      /\ request.body.json = "object"
      /\ request.body.has_text
      /\ request.body.text # <<>>
      /\ EncodedTokens = <<>> )
    => /\ response.status = 200
       /\ response.body.token_features = <<>>
       /\ response.body.total_features = 0
       /\ response.body.sparsity.num = 0
       /\ ~IsNaN(response.body.sparsity)

\* C9: a search without a query, or with the empty query, gets a
\* validation error (status 400) whatever the limit parameter is, samples
\* no feature id and never calls the resolver.
C9_MissingQueryAlwaysValidationError ==
    (Answered("search") /\ SuppliedQuery = "")
    => /\ response.status = 400
       /\ calls.sampled = 0
       /\ calls.resolver = 0

RECURSIVE SumOfLengths(_, _)
SumOfLengths(token_features, e) ==
    IF e > Len(token_features) THEN 0
    ELSE Len(token_features[e].features) + SumOfLengths(token_features, e + 1)

RECURSIVE SumOfCardinalities(_, _)
SumOfCardinalities(sets, i) ==
    IF i > Len(sets) THEN 0
    ELSE Cardinality(sets[i]) + SumOfCardinalities(sets, i + 1)

\* C10: total_features of an encode result is the number of active entries
\* of the whole matrix; it is at least the sum of the lengths of the
\* emitted feature lists and equals it exactly when no token has more than
\* 5 active entries; with at least one token, sparsity is total_features
\* over tokens times feature_dimension.
C10_TotalCountsWholeMatrix ==
    Encoded =>
        LET n == Len(EncodedTokens)
            columns == ActiveColumns
            total == response.body.total_features
            emitted == SumOfLengths(response.body.token_features, 1)
        IN  /\ total = SumOfCardinalities(columns, 1)
            /\ total >= emitted
            /\ (total = emitted)
                 <=> (\A i \in 1..n : Cardinality(columns[i]) <= 5)
            /\ n >= 1 =>
                 response.body.sparsity
                   = [num |-> total, den |-> n * feature_dimension]

\* one token with 6 active entries: 6 counted, 5 emitted
C10_Witness ==
    /\ Encoded
    /\ Len(EncodedTokens) = 1
    /\ response.body.total_features = 6
    /\ SumOfLengths(response.body.token_features, 1) = 5
    /\ response.body.sparsity = [num |-> 6, den |-> feature_dimension]

====
